---- MODULE Spec2Model ----
(***************************************************************************)
(* Model of src/probability.js: the three estimators                       *)
(* (ProbabilityCalculator, ReliabilityRepository,                          *)
(* SuggestedMarkupRepository) over the offers table.                       *)
(*                                                                         *)
(* Numbers are exact rationals [n, d] (d > 0, lowest terms) extended with  *)
(* the IEEE specials the code can produce: NaN = 0/0, +Infinity = 1/0,     *)
(* -Infinity = -1/0.  Strings are sequences of character codes.  A         *)
(* nullable column is <<>> (NULL) or <<v>>.                                *)
(***************************************************************************)
EXTENDS Integers, Sequences, FiniteSets, TLC

VARIABLES store, clock, pc, call, loc, result, qlog, prev

vars == <<store, clock, pc, call, loc, result, qlog, prev>>

(***************************************************************************)
(* Bounds of the model                                                     *)
(***************************************************************************)
MaxOffers == 2
MaxTicks == 1
MaxHistory == 5

(***************************************************************************)
(* Numbers                                                                 *)
(***************************************************************************)
Abs(i) == IF i < 0 THEN -i ELSE i

Sign(i) == IF i < 0 THEN -1 ELSE IF i > 0 THEN 1 ELSE 0

RECURSIVE Gcd(_, _)
Gcd(a, b) == IF b = 0 THEN a ELSE Gcd(b, a % b)

Rat(n, d) ==
    IF d = 0 THEN [n |-> Sign(n), d |-> 0]
    ELSE LET g == Gcd(Abs(n), Abs(d))
         IN  [n |-> Sign(d) * (n \div g), d |-> Abs(d) \div g]

R(i) == [n |-> i, d |-> 1]

NaN == [n |-> 0, d |-> 0]

IsNaN(x) == x.d = 0 /\ x.n = 0

IsInf(x) == x.d = 0 /\ x.n # 0

IsFinite(x) == x.d # 0

Neg(x) == [n |-> -x.n, d |-> x.d]

Add(a, b) ==
    IF IsNaN(a) \/ IsNaN(b) THEN NaN
    ELSE IF IsInf(a) THEN (IF IsInf(b) /\ b.n # a.n THEN NaN ELSE a)
    ELSE IF IsInf(b) THEN b
    ELSE Rat(a.n * b.d + b.n * a.d, a.d * b.d)

Sub(a, b) == Add(a, Neg(b))

Mul(a, b) ==
    IF IsNaN(a) \/ IsNaN(b) THEN NaN
    ELSE IF IsInf(a) \/ IsInf(b) THEN Rat(Sign(a.n) * Sign(b.n), 0)
    ELSE Rat(a.n * b.n, a.d * b.d)

Div(a, b) ==
    IF IsNaN(a) \/ IsNaN(b) THEN NaN
    ELSE IF IsInf(a) THEN (IF IsInf(b) THEN NaN ELSE Rat(a.n * (IF b.n < 0 THEN -1 ELSE 1), 0))
    ELSE IF IsInf(b) THEN R(0)
    ELSE Rat(a.n * b.d, a.d * b.n)

\* a < b as JavaScript compares numbers: false when either side is NaN
Lt(a, b) ==
    IF IsNaN(a) \/ IsNaN(b) THEN FALSE
    ELSE IF IsInf(a) /\ IsInf(b) THEN a.n < b.n
    ELSE IF IsInf(a) THEN a.n < 0
    ELSE IF IsInf(b) THEN b.n > 0
    ELSE a.n * b.d < b.n * a.d

Gt(a, b) == Lt(b, a)

Le(a, b) == ~IsNaN(a) /\ ~IsNaN(b) /\ ~Lt(b, a)

\* Math.max / Math.min: NaN when either argument is NaN
MathMax(a, b) == IF IsNaN(a) \/ IsNaN(b) THEN NaN ELSE IF Lt(a, b) THEN b ELSE a

MathMin(a, b) == IF IsNaN(a) \/ IsNaN(b) THEN NaN ELSE IF Lt(b, a) THEN b ELSE a

MathAbs(x) == [n |-> Abs(x.n), d |-> x.d]

\* Math.floor of a finite number, as an integer
FloorInt(x) == x.n \div x.d

\* Math.round: the nearest integer, ties towards +Infinity
MathRound(x) == IF IsFinite(x) THEN R(FloorInt(Add(x, Rat(1, 2)))) ELSE x

\* Number(x.toFixed(1)): one decimal, ties away from zero
ToFixed1(x) ==
    IF ~IsFinite(x) THEN x
    ELSE LET m == FloorInt(Add(Mul(MathAbs(x), R(10)), Rat(1, 2)))
         IN  Rat(Sign(x.n) * m, 10)

\* largest r with r * r <= x, by bisection on lo..hi
RECURSIVE ISqrtIn(_, _, _)
ISqrtIn(x, lo, hi) ==
    IF lo >= hi THEN lo
    ELSE LET mid == (lo + hi + 1) \div 2
         IN  IF mid * mid <= x THEN ISqrtIn(x, mid, hi) ELSE ISqrtIn(x, lo, mid - 1)

SqrtScale == 1000

\* Math.sqrt of a finite x >= 0, truncated to 1/SqrtScale, and to 1/100
\* where the finer scale would leave the 32-bit integers
MathSqrt(x) ==
    IF ~IsFinite(x) THEN x
    ELSE IF x.n <= 2147
         THEN Rat(ISqrtIn((x.n * SqrtScale * SqrtScale) \div x.d, 0, 46340), SqrtScale)
         ELSE Rat(ISqrtIn((x.n * 10000) \div x.d, 0, 46340), 100)

(***************************************************************************)
(* Strings                                                                 *)
(***************************************************************************)
\* s.split('').reduce((sum, char) => sum + char.charCodeAt(0), 0)
RECURSIVE CharCodeSum(_)
CharCodeSum(s) == IF s = <<>> THEN 0 ELSE Head(s) + CharCodeSum(Tail(s))

IsDigit(c) == c >= 48 /\ c <= 57

\* the value of the leading run of decimal digits of s, continuing from acc
RECURSIVE DigitRun(_, _)
DigitRun(s, acc) ==
    IF s = <<>> \/ ~IsDigit(Head(s)) THEN acc
    ELSE DigitRun(Tail(s), acc * 10 + (Head(s) - 48))

\* productId.slice(-2)
SliceLast2(s) == IF Len(s) <= 2 THEN s ELSE SubSeq(s, Len(s) - 1, Len(s))

\* parseInt(s) || 0: an optional sign, then digits; NaN (no digit) becomes 0
ParseIntOr0(s) ==
    IF s = <<>> THEN 0
    ELSE IF Head(s) = 45 THEN -DigitRun(Tail(s), 0)
    ELSE IF Head(s) = 43 THEN DigitRun(Tail(s), 0)
    ELSE DigitRun(s, 0)

(***************************************************************************)
(* The offers table                                                        *)
(***************************************************************************)
Null == <<>>

NoDate == [kind |-> "null", day |-> 0]

BadDate == [kind |-> "bad", day |-> 0]

Day(d) == [kind |-> "day", day |-> d]

\* A row of the offers table.  m is the markup percentage in whole points,
\* Null when the purchase price is zero; the price columns are chosen so
\* that the stored calculated_markup_percentage and the expression
\* (box - pp * rate) / (pp * rate) * 100 agree.
Offer(c, p, s, q, m, dt) ==
    [customer__nr |-> c, product__id |-> p, offer__success |-> s,
     offer_answer__qty |-> q,
     calculated_markup_percentage |-> IF m = Null THEN Null ELSE <<R(m[1])>>,
     offer_answer__box_price_chf |-> IF m = Null THEN 50 ELSE 100 + m[1],
     purchase_price__gross_purchase_price |-> IF m = Null THEN 0 ELSE 100,
     rate |-> 1,
     offer__encoding_date |-> dt]

\* the customers and products of the model, as strings of character codes
Cust7 == <<55>>

Cust8 == <<56>>

Prod00 == <<48, 48>>

Prod95 == <<57, 53>>

\* the (customer, product) pairs offers are recorded for
OfferPairs == <<[c |-> Cust7, p |-> Prod00], [c |-> Cust7, p |-> Prod95],
               [c |-> Cust8, p |-> Prod00]>>

\* the arguments the entry points are called with
CallCustomers == {Cust7}

CallProducts == {Prod00, Prod95}

\* the sequences of at most max kinds (indices below nKinds) in
\* non-decreasing order: one representative of every multiset of rows, the
\* table having no order of its own
KindSeqs(nKinds, max) ==
    UNION { { g \in [1..n -> 0..(nKinds - 1)] : \A i \in 1..(n - 1) : g[i] <= g[i + 1] } :
            n \in 0..max }

(***************************************************************************)
(* Queries                                                                 *)
(***************************************************************************)
\* ORDER BY offer__encoding_date DESC: NULL sorts last, text by its value
DateRank(dt) == IF dt.kind = "null" THEN -1 ELSE IF dt.kind = "bad" THEN 1000000 ELSE dt.day

RECURSIVE InsertByDate(_, _)
InsertByDate(row, sorted) ==
    IF sorted = <<>> THEN <<row>>
    ELSE IF DateRank(row.offer__encoding_date) > DateRank(Head(sorted).offer__encoding_date)
         THEN <<row>> \o sorted
         ELSE <<Head(sorted)>> \o InsertByDate(row, Tail(sorted))

RECURSIVE OrderByDateDesc(_)
OrderByDateDesc(rows) ==
    IF rows = <<>> THEN <<>>
    ELSE InsertByDate(rows[Len(rows)], OrderByDateDesc(SubSeq(rows, 1, Len(rows) - 1)))

Limit(rows, n) == IF Len(rows) <= n THEN rows ELSE SubSeq(rows, 1, n)

\* ((box - pp * rate) / (pp * rate) * 100) as markup: NULL on division by zero
PriceMarkup(o) ==
    LET cost == o.purchase_price__gross_purchase_price * o.rate
    IN  IF cost = 0 THEN Null
        ELSE <<Mul(Rat(o.offer_answer__box_price_chf - cost, cost), R(100))>>

\* a fetched HistoricalOffer; a column the query does not select is Null
RowStored(o) ==
    [success |-> <<o.offer__success>>, offer_answer__qty |-> o.offer_answer__qty,
     markup |-> o.calculated_markup_percentage,
     offer__encoding_date |-> o.offer__encoding_date]

RowPriced(o) ==
    [success |-> <<o.offer__success>>, offer_answer__qty |-> o.offer_answer__qty,
     markup |-> PriceMarkup(o),
     offer__encoding_date |-> o.offer__encoding_date]

\* ReliabilityRepository._fetchCompleteProductCustomerHistory (LIMIT 20)
RelFetchPairHistory(db, customerNr, productId) ==
    LET Match(o) == o.customer__nr = customerNr /\ o.product__id = productId
    IN  LET rows == Limit(OrderByDateDesc(SelectSeq(db, Match)), 20)
        IN  [k \in 1..Len(rows) |-> RowStored(rows[k])]

\* ReliabilityRepository._fetchCompleteProductHistory (LIMIT 30)
RelFetchProductHistory(db, productId) ==
    LET Match(o) == o.product__id = productId
    IN  LET rows == Limit(OrderByDateDesc(SelectSeq(db, Match)), 30)
        IN  [k \in 1..Len(rows) |-> RowStored(rows[k])]

\* ReliabilityRepository._fetchCompleteCustomerHistory (LIMIT 50)
RelFetchCustomerHistory(db, customerNr) ==
    LET Match(o) == o.customer__nr = customerNr
    IN  LET rows == Limit(OrderByDateDesc(SelectSeq(db, Match)), 50)
        IN  [k \in 1..Len(rows) |-> RowStored(rows[k])]

(***************************************************************************)
(* ReliabilityRepository                                                   *)
(***************************************************************************)
MAX_DAYS_FOR_RECENT_DATA == 365

\* h.markup != null && !isNaN(h.markup)
ValidMarkup(h) == h.markup # Null /\ ~IsNaN(h.markup[1])

\* xs.reduce((sum, x) => sum + x, 0)
RECURSIVE SumSeq(_)
SumSeq(xs) == IF xs = <<>> THEN R(0) ELSE Add(SumSeq(SubSeq(xs, 1, Len(xs) - 1)), xs[Len(xs)])

\* CalculateDataRecency answering 0 when no date parses
CalculateDataRecency_ZeroUnparsed(history, now) ==
    LET Parses(h) == h.offer__encoding_date.kind = "day"
        parsed == SelectSeq(history, Parses)
        Age(h) == R(now - h.offer__encoding_date.day)
    IN  IF Len(parsed) = 0 THEN R(0)
        ELSE LET avgAgeDays ==
                     Div(SumSeq([k \in 1..Len(parsed) |-> Age(parsed[k])]), R(Len(parsed)))
             IN  MathMax(R(0),
                     Sub(R(100), Mul(Div(avgAgeDays, R(MAX_DAYS_FOR_RECENT_DATA)), R(100))))

\* _calculateDataRecency, with now the value new Date() returns, in days
CalculateDataRecency(history, now) ==
    IF Len(history) = 0 THEN R(0)
    ELSE LET HasDate(h) == h.offer__encoding_date.kind # "null"
             offersWithDates == SelectSeq(history, HasDate)
             Parses(h) == h.offer__encoding_date.kind = "day"
             parsed == SelectSeq(offersWithDates, Parses)
             Age(h) == R(now - h.offer__encoding_date.day)
             count == Len(parsed)
         IN  IF Len(offersWithDates) = 0 THEN R(0)
             ELSE IF count = 0 THEN R(50)
             ELSE LET avgAgeDays == Div(SumSeq([k \in 1..Len(parsed) |-> Age(parsed[k])]), R(count))
                  IN  MathMax(R(0),
                          Sub(R(100), Mul(Div(avgAgeDays, R(MAX_DAYS_FOR_RECENT_DATA)), R(100))))

\* _calculateDataConsistency
CalculateDataConsistency(history) ==
    IF Len(history) < 2 THEN R(0)
    ELSE LET valid == SelectSeq(history, ValidMarkup)
             Val(h) == h.markup[1]
             n == Len(valid)
         IN  IF n < 2 THEN R(0)
             ELSE LET mean == Div(SumSeq([k \in 1..Len(valid) |-> Val(valid[k])]), R(n))
                      Sq(h) == Mul(Sub(Val(h), mean), Sub(Val(h), mean))
                      variance == Div(SumSeq([k \in 1..Len(valid) |-> Sq(valid[k])]), R(n))
                      stdDev == MathSqrt(variance)
                      coefficientOfVariation == Mul(Div(stdDev, MathAbs(mean)), R(100))
                  IN  MathMax(R(0), Sub(R(100), Mul(coefficientOfVariation, R(2))))

\* Math.round(direct * 0.7 + recency * 0.2 + consistency * 0.1)
ReliabilityScore(direct, recency, consistency) ==
    MathRound(Add(Add(Mul(direct, Rat(7, 10)), Mul(recency, Rat(2, 10))),
                  Mul(consistency, Rat(1, 10))))

ReliabilityResult(direct, recency, consistency, fallbacksUsed) ==
    [kind |-> "reliability",
     reliability |-> ReliabilityScore(direct, recency, consistency),
     directHistory |-> direct, dataRecency |-> recency,
     dataConsistency |-> consistency, fallbacksUsed |-> Sub(R(100), fallbacksUsed)]

\* the branch with direct customer-product history
ReliabilityDirect(history, now) ==
    ReliabilityResult(MathMin(R(100), R(Len(history) * 20)),
                      CalculateDataRecency(history, now),
                      CalculateDataConsistency(history), R(0))

\* the branch with product history from other customers
ReliabilityProduct(productHistory, now) ==
    ReliabilityResult(R(0), CalculateDataRecency(productHistory, now),
                      CalculateDataConsistency(productHistory),
                      MathMax(R(40), R(80 - Len(productHistory) * 3)))

\* the branch with customer history only; jitter is Math.floor(Math.random() * 10)
ReliabilityCustomer(customerHistory, now, jitter) ==
    ReliabilityResult(R(0),
                      Mul(CalculateDataRecency(customerHistory, now), Rat(5, 10)),
                      Mul(CalculateDataConsistency(customerHistory), Rat(3, 10)),
                      R(85 - jitter))

\* ReliabilityNoHistory with the hash taken over the digits' values
ReliabilityNoHistory_DigitHash(productId) ==
    LET productIdSum == CharCodeSum(productId) - 48 * Len(productId)
    IN  ReliabilityResult(R(5 + (productIdSum % 15)), R(10 + (productIdSum % 20)),
                          R(5 + (productIdSum % 20)), R(100))

\* ReliabilityNoHistory with no fallback penalty
ReliabilityNoHistory_NoPenalty(productId) ==
    LET productIdSum == CharCodeSum(productId)
    IN  ReliabilityResult(R(5 + (productIdSum % 15)), R(10 + (productIdSum % 20)),
                          R(5 + (productIdSum % 20)), R(0))

\* the branch with no history at all; fallbacksUsed is still the 100 set on
\* entering the no-direct-history branch
ReliabilityNoHistory(productId) ==
    LET productIdSum == CharCodeSum(productId)
    IN  ReliabilityResult(R(5 + (productIdSum % 15)), R(10 + (productIdSum % 20)),
                          R(5 + (productIdSum % 20)), R(100))

\* the catch block's default
ReliabilityDefault ==
    [kind |-> "reliability", reliability |-> R(20), directHistory |-> R(20),
     dataRecency |-> R(20), dataConsistency |-> R(20), fallbacksUsed |-> R(20)]

(***************************************************************************)
(* ProbabilityCalculator                                                   *)
(***************************************************************************)
SIMILAR_MARKUP_THRESHOLD == 5

\* ProbabilityCalculator._fetchCompleteProductCustomerHistory (LIMIT 20)
ProbFetchPairHistory(db, customerNr, productId) ==
    LET Match(o) == o.customer__nr = customerNr /\ o.product__id = productId
    IN  LET rows == Limit(OrderByDateDesc(SelectSeq(db, Match)), 20)
        IN  [k \in 1..Len(rows) |-> RowPriced(rows[k])]

\* ProbabilityCalculator._fetchCompleteProductHistory (LIMIT 30)
ProbFetchProductHistory(db, productId) ==
    LET Match(o) == o.product__id = productId
    IN  LET rows == Limit(OrderByDateDesc(SelectSeq(db, Match)), 30)
        IN  [k \in 1..Len(rows) |-> RowPriced(rows[k])]

\* ProbabilityCalculator._fetchCompleteCustomerHistory (LIMIT 30)
ProbFetchCustomerHistory(db, customerNr) ==
    LET Match(o) == o.customer__nr = customerNr
    IN  LET rows == Limit(OrderByDateDesc(SelectSeq(db, Match)), 30)
        IN  [k \in 1..Len(rows) |-> RowPriced(rows[k])]

\* history.filter(h => h.markup !== null && !isNaN(h.markup) &&
\*                     Math.abs(h.markup - markup) <= threshold)
SimilarMarkupOffers(history, markup, threshold) ==
    LET Similar(h) == /\ ValidMarkup(h)
                      /\ Le(MathAbs(Sub(h.markup[1], markup)), R(threshold))
    IN  SelectSeq(history, Similar)

\* history.filter(h => h.success === 1).length
SuccessCount(history) ==
    LET Won(h) == h.success = <<1>>
    IN  Len(SelectSeq(history, Won))

\* (successCount / offers.length) * 100
SuccessRate(offers) == Mul(Div(R(SuccessCount(offers)), R(Len(offers))), R(100))

\* the markup tiers of the no-data estimate; extra is productIdSum % 5
TierShift(markup, extra) ==
    IF Gt(markup, R(35)) THEN -(15 + extra)
    ELSE IF Gt(markup, R(25)) THEN -(5 + extra)
    ELSE IF Lt(markup, R(15)) THEN 5 + extra
    ELSE IF Lt(markup, R(10)) THEN 10 + extra
    ELSE 0

\* the estimate of _calculateFallbackProbability when there is no history
NoDataProbability(markup, productId) ==
    LET productIdSum == CharCodeSum(productId)
        baseVariation == (productIdSum % 25) - 12
        baseProbability == 50 + baseVariation + TierShift(markup, productIdSum % 5)
    IN  MathMin(R(85), MathMax(R(15), R(baseProbability)))

\* FewDataProbability adding the whole success rate to the weighted estimate
FewDataProbability_Unweighted(combinedHistory, markup, productId, customerNr) ==
    LET productIdSum == CharCodeSum(productId)
        customerIdSum == CharCodeSum(customerNr)
        baseVariation == ((productIdSum + customerIdSum) % 20) - 10
        baseProbability == R(50 + baseVariation + TierShift(markup, 0))
    IN  IF Len(combinedHistory) > 0
        THEN Add(Mul(baseProbability, Rat(7, 10)), SuccessRate(combinedHistory))
        ELSE MathMin(R(85), MathMax(R(15), baseProbability))

\* the estimate of _calculateFallbackProbability with fewer than 3 similar offers
FewDataProbability(combinedHistory, markup, productId, customerNr) ==
    LET productIdSum == CharCodeSum(productId)
        customerIdSum == CharCodeSum(customerNr)
        baseVariation == ((productIdSum + customerIdSum) % 20) - 10
        baseProbability == R(50 + baseVariation + TierShift(markup, 0))
    IN  IF Len(combinedHistory) > 0
        THEN Add(Mul(baseProbability, Rat(7, 10)),
                 Mul(SuccessRate(combinedHistory), Rat(3, 10)))
        ELSE MathMin(R(85), MathMax(R(15), baseProbability))

\* _calculateFallbackProbability, after its two queries
FallbackProbability(productHistory, customerHistory, markup, productId, customerNr) ==
    LET combinedHistory == productHistory \o customerHistory
        similarMarkupOffers ==
            SimilarMarkupOffers(combinedHistory, markup, SIMILAR_MARKUP_THRESHOLD * 2)
    IN  IF Len(combinedHistory) = 0 THEN NoDataProbability(markup, productId)
        ELSE IF Len(similarMarkupOffers) < 3
             THEN FewDataProbability(combinedHistory, markup, productId, customerNr)
        ELSE SuccessRate(similarMarkupOffers)

\* whether _calculateSuccessProbability answers from the pair history
HasSimilarPairOffers(history, markup) ==
    /\ Len(history) # 0
    /\ Len(SimilarMarkupOffers(history, markup, SIMILAR_MARKUP_THRESHOLD)) # 0

\* PrimaryProbability with the successes counted over the whole pair history
PrimaryProbability_AllSuccesses(history, markup) ==
    Mul(Div(R(SuccessCount(history)),
            R(Len(SimilarMarkupOffers(history, markup, SIMILAR_MARKUP_THRESHOLD)))),
        R(100))

\* the answer of _calculateSuccessProbability from the pair history
PrimaryProbability(history, markup) ==
    SuccessRate(SimilarMarkupOffers(history, markup, SIMILAR_MARKUP_THRESHOLD))

(***************************************************************************)
(* SuggestedMarkupRepository                                               *)
(***************************************************************************)
DEFAULT_MARKUP == 20

MIN_MARKUP == 1

MAX_MARKUP == 1000

DEFAULT_AVG_QUANTITY == 10

RowSuccessPair(o) ==
    [success |-> Null, offer_answer__qty |-> o.offer_answer__qty,
     markup |-> o.calculated_markup_percentage,
     offer__encoding_date |-> o.offer__encoding_date]

RowSuccessProduct(o) ==
    [success |-> Null, offer_answer__qty |-> o.offer_answer__qty,
     markup |-> o.calculated_markup_percentage, offer__encoding_date |-> NoDate]

RowSuccessCustomer(o) ==
    [success |-> Null, offer_answer__qty |-> Null,
     markup |-> o.calculated_markup_percentage, offer__encoding_date |-> NoDate]

\* _fetchProductCustomerHistorySuccess (offer__success = 1, LIMIT 10)
FetchProductCustomerHistorySuccess(db, customerNr, productId) ==
    LET Match(o) == /\ o.customer__nr = customerNr /\ o.product__id = productId
                    /\ o.offer__success = 1
    IN  LET rows == Limit(OrderByDateDesc(SelectSeq(db, Match)), 10)
        IN  [k \in 1..Len(rows) |-> RowSuccessPair(rows[k])]

\* _fetchGeneralProductHistorySuccess (offer__success = 1, LIMIT 20)
FetchGeneralProductHistorySuccess(db, productId) ==
    LET Match(o) == o.product__id = productId /\ o.offer__success = 1
    IN  LET rows == Limit(OrderByDateDesc(SelectSeq(db, Match)), 20)
        IN  [k \in 1..Len(rows) |-> RowSuccessProduct(rows[k])]

\* _fetchGeneralCustomerHistorySuccess (offer__success = 1, LIMIT 20)
FetchGeneralCustomerHistorySuccess(db, customerNr) ==
    LET Match(o) == o.customer__nr = customerNr /\ o.offer__success = 1
    IN  LET rows == Limit(OrderByDateDesc(SelectSeq(db, Match)), 20)
        IN  [k \in 1..Len(rows) |-> RowSuccessCustomer(rows[k])]

\* SuggestedMarkupRepository._fetchCompleteCustomerHistory (LIMIT 30)
FetchCompleteCustomerHistory(db, customerNr) ==
    LET Match(o) == o.customer__nr = customerNr
    IN  LET rows == Limit(OrderByDateDesc(SelectSeq(db, Match)), 30)
        IN  [k \in 1..Len(rows) |-> RowPriced(rows[k])]

\* xs.sort((a, b) => a - b)
RECURSIVE InsertAscending(_, _)
InsertAscending(x, sorted) ==
    IF sorted = <<>> THEN <<x>>
    ELSE IF Lt(x, Head(sorted)) THEN <<x>> \o sorted
    ELSE <<Head(sorted)>> \o InsertAscending(x, Tail(sorted))

RECURSIVE SortAscending(_)
SortAscending(xs) ==
    IF xs = <<>> THEN <<>>
    ELSE InsertAscending(xs[Len(xs)], SortAscending(SubSeq(xs, 1, Len(xs) - 1)))

\* the valid markups of history, sorted
ValidMarkups(history) ==
    LET valid == SelectSeq(history, ValidMarkup)
    IN  SortAscending([i \in 1..Len(valid) |-> valid[i].markup[1]])

\* MedianMarkup taking the lower of the two middle elements
MedianMarkup_LowerMiddle(validMarkups) == validMarkups[((Len(validMarkups) - 1) \div 2) + 1]

\* validMarkups[Math.floor(validMarkups.length / 2)]
MedianMarkup(validMarkups) == validMarkups[(Len(validMarkups) \div 2) + 1]

\* _computeWeightedMarkup
ComputeWeightedMarkup(history) ==
    LET validMarkups == ValidMarkups(history)
    IN  IF Len(validMarkups) = 0 THEN R(DEFAULT_MARKUP)
        ELSE LET medianMarkup == MedianMarkup(validMarkups)
                 averageMarkup == Div(SumSeq(validMarkups), R(Len(validMarkups)))
             IN  Add(MathMax(medianMarkup, averageMarkup), R(2))

\* ClientHistoryAdjustment without the record-count guard of the penalty
ClientHistoryAdjustment_NoCountGuard(allHistory) ==
    IF Len(allHistory) = 0 THEN R(0)
    ELSE LET successRate == Div(R(SuccessCount(allHistory)), R(Len(allHistory)))
         IN  IF Gt(successRate, Rat(7, 10))
             THEN MathMin(R(5), MathRound(Mul(successRate, R(5))))
             ELSE IF Lt(successRate, Rat(3, 10)) THEN R(-2)
             ELSE R(0)

\* _calculateClientHistoryAdjustment, after its query
ClientHistoryAdjustment(allHistory) ==
    IF Len(allHistory) = 0 THEN R(0)
    ELSE LET successRate == Div(R(SuccessCount(allHistory)), R(Len(allHistory)))
         IN  IF Gt(successRate, Rat(7, 10))
             THEN MathMin(R(5), MathRound(Mul(successRate, R(5))))
             ELSE IF Lt(successRate, Rat(3, 10)) /\ Len(allHistory) > 3 THEN R(-2)
             ELSE R(0)

\* h.offer_answer__qty || dflt
QtyOr(h, dflt) ==
    IF h.offer_answer__qty = Null \/ h.offer_answer__qty = <<0>> THEN R(dflt)
    ELSE R(h.offer_answer__qty[1])

\* CalculateVolumeDiscount with inclusive thresholds
CalculateVolumeDiscount_Inclusive(quantity, history) ==
    IF Len(history) = 0 THEN R(0)
    ELSE LET Qty(h) == QtyOr(h, 0)
             avgQuantity == Div(SumSeq([k \in 1..Len(history) |-> Qty(history[k])]), R(Len(history)))
         IN  IF Le(Mul(avgQuantity, R(2)), R(quantity)) THEN R(-5)
             ELSE IF Le(Mul(avgQuantity, Rat(3, 2)), R(quantity)) THEN R(-3)
             ELSE IF Le(R(quantity), Mul(avgQuantity, Rat(1, 2))) THEN R(2)
             ELSE R(0)

\* _calculateVolumeDiscount
CalculateVolumeDiscount(quantity, history) ==
    IF Len(history) = 0 THEN R(0)
    ELSE LET Qty(h) == QtyOr(h, 0)
             avgQuantity == Div(SumSeq([k \in 1..Len(history) |-> Qty(history[k])]), R(Len(history)))
         IN  IF Gt(R(quantity), Mul(avgQuantity, R(2))) THEN R(-5)
             ELSE IF Gt(R(quantity), Mul(avgQuantity, Rat(3, 2))) THEN R(-3)
             ELSE IF Lt(R(quantity), Mul(avgQuantity, Rat(1, 2))) THEN R(2)
             ELSE R(0)

\* _adjustForQuantity
AdjustForQuantity(currentQty, history, baseMarkup) ==
    LET Qty(h) == QtyOr(h, 1)
        avgHistoricalQty == IF Len(history) > 0
                            THEN Div(SumSeq([k \in 1..Len(history) |-> Qty(history[k])]), R(Len(history)))
                            ELSE R(DEFAULT_AVG_QUANTITY)
        qtyRatio == Div(R(currentQty), avgHistoricalQty)
    IN  IF Gt(qtyRatio, R(2)) THEN Mul(baseMarkup, Rat(9, 10))
        ELSE IF Lt(qtyRatio, Rat(1, 2)) THEN Mul(baseMarkup, Rat(11, 10))
        ELSE baseMarkup

\* the base markup of _combineFallbackHistories when there is no history
PseudoMarkup(productId) ==
    IF productId # <<>>
    THEN LET productIdSum == CharCodeSum(productId)
             variation == (productIdSum % 20) - 7
             lastTwoDigits == ParseIntOr0(SliceLast2(productId))
             categoryAdjustment == IF lastTwoDigits < 20 THEN -3
                                   ELSE IF lastTwoDigits > 80 THEN 5 ELSE 0
         IN  MathMax(R(MIN_MARKUP + 2),
                     MathMin(R(MAX_MARKUP - 5),
                             R(DEFAULT_MARKUP + variation + categoryAdjustment)))
    ELSE R(DEFAULT_MARKUP)

\* the base markup of _combineFallbackHistories, before the quantity adjustment
FallbackBaseMarkup(productHistory, customerHistory, productId) ==
    LET productMarkup == IF Len(productHistory) > 0
                         THEN ComputeWeightedMarkup(productHistory) ELSE R(DEFAULT_MARKUP)
        customerMarkup == IF Len(customerHistory) > 0
                          THEN ComputeWeightedMarkup(customerHistory) ELSE R(DEFAULT_MARKUP)
        weightProduct == IF Len(productHistory) > 0 THEN Rat(7, 10) ELSE R(0)
        weightCustomer == IF Len(customerHistory) > 0 THEN Rat(3, 10) ELSE R(0)
        totalWeight == Add(weightProduct, weightCustomer)
    IN  IF Gt(totalWeight, R(0))
        THEN Div(Add(Mul(productMarkup, weightProduct), Mul(customerMarkup, weightCustomer)),
                 totalWeight)
        ELSE PseudoMarkup(productId)

\* _combineFallbackHistories
CombineFallbackHistories(productHistory, customerHistory, currentQty, productId) ==
    AdjustForQuantity(currentQty, productHistory \o customerHistory,
                      FallbackBaseMarkup(productHistory, customerHistory, productId))

\* ClampMarkup without the upper limit
ClampMarkup_NoUpperLimit(markup) == MathMax(R(MIN_MARKUP), markup)

\* Math.max(MIN_MARKUP, Math.min(MAX_MARKUP, markup))
ClampMarkup(markup) == MathMax(R(MIN_MARKUP), MathMin(R(MAX_MARKUP), markup))

\* the value calculateSuggestedMarkup returns from inside its try block
\* MarkupResult suggesting the base markup, the adjustments left out
MarkupResult_BaseOnly(markup, probability, historyCount, baseMarkup, clientHistory, volumeDiscount) ==
    [kind |-> "markup",
     suggestedMarkup |-> ToFixed1(ClampMarkup(baseMarkup)),
     probability |-> MathRound(probability),
     historyCount |-> historyCount,
     baseMarkup |-> baseMarkup,
     clientHistory |-> clientHistory,
     volumeDiscount |-> volumeDiscount]

MarkupResult(markup, probability, historyCount, baseMarkup, clientHistory, volumeDiscount) ==
    [kind |-> "markup",
     suggestedMarkup |-> ToFixed1(ClampMarkup(markup)),
     probability |-> MathRound(probability),
     historyCount |-> historyCount,
     baseMarkup |-> baseMarkup,
     clientHistory |-> clientHistory,
     volumeDiscount |-> volumeDiscount]

\* the catch block's default
MarkupDefault ==
    [kind |-> "markup", suggestedMarkup |-> R(DEFAULT_MARKUP), probability |-> R(50),
     historyCount |-> 0, baseMarkup |-> R(DEFAULT_MARKUP),
     clientHistory |-> Null, volumeDiscount |-> Null]

\* markupFactors.x = v only when v !== 0
Factor(v) == IF v = R(0) THEN Null ELSE <<v>>

(***************************************************************************)
(* Calls in flight.  A call runs from one await to the next in one step;   *)
(* pc is the await it is suspended at.                                     *)
(***************************************************************************)
NoCall == [est |-> "none", customerNr |-> <<>>, productId |-> <<>>,
           markup |-> R(0), quantity |-> 0]

NoResult == [kind |-> "none"]

\* the promise the entry point returned was rejected
Rejected == [kind |-> "rejected"]

\* the local variables of a call that live across an await
NoLoc == [thrown |-> "none", markup |-> R(0), baseMarkup |-> R(0), clientHistory |-> Null,
          volumeDiscount |-> Null, historyCount |-> 0, history |-> <<>>,
          productHistory |-> <<>>]

NoPrev == [call |-> NoCall, thrown |-> "none", result |-> NoResult]

\* the day the first call is made on
Clock0 == 400

Finish(i, r) ==
    /\ result' = [result EXCEPT ![i] = r]
    /\ pc' = [pc EXCEPT ![i] = "done"]

Goto(i, label) ==
    /\ pc' = [pc EXCEPT ![i] = label]
    /\ UNCHANGED result

Issue(i, query) == qlog' = [qlog EXCEPT ![i] = Append(@, query)]

\* time passes
Tick ==
    /\ clock < Clock0 + MaxTicks
    /\ clock' = clock + 1
    /\ UNCHANGED <<store, pc, call, loc, result, qlog, prev>>

\* the caller takes the settled promise
Return(i) ==
    /\ pc[i] = "done"
    /\ pc' = [pc EXCEPT ![i] = "idle"]
    /\ call' = [call EXCEPT ![i] = NoCall]
    /\ loc' = [loc EXCEPT ![i] = NoLoc]
    /\ result' = [result EXCEPT ![i] = NoResult]
    /\ qlog' = [qlog EXCEPT ![i] = <<>>]
    /\ UNCHANGED <<store, clock, prev>>

\* as Return, remembering the call and what it returned
ReturnTracked(i) ==
    /\ pc[i] = "done"
    /\ prev' = [call |-> call[i], thrown |-> loc[i].thrown, result |-> result[i]]
    /\ pc' = [pc EXCEPT ![i] = "idle"]
    /\ call' = [call EXCEPT ![i] = NoCall]
    /\ loc' = [loc EXCEPT ![i] = NoLoc]
    /\ result' = [result EXCEPT ![i] = NoResult]
    /\ qlog' = [qlog EXCEPT ![i] = <<>>]
    /\ UNCHANGED <<store, clock>>

(***************************************************************************)
(* calculateProductReliability                                             *)
(***************************************************************************)
CalculateProductReliability(i, customerNr, productId) ==
    /\ pc[i] = "idle"
    /\ call' = [call EXCEPT ![i] = [est |-> "reliability", customerNr |-> customerNr,
                                    productId |-> productId, markup |-> R(0),
                                    quantity |-> 0]]
    /\ pc' = [pc EXCEPT ![i] = "rel_getDb"]
    /\ UNCHANGED <<store, clock, loc, result, qlog, prev>>

\* const db = await getDb(), before the try block
RelGetDb(i) ==
    /\ pc[i] = "rel_getDb"
    /\ Goto(i, "rel_pair")
    /\ UNCHANGED <<store, clock, call, loc, qlog, prev>>

\* getDb() rejects: nothing catches it
RelGetDbFails(i) ==
    /\ pc[i] = "rel_getDb"
    /\ loc' = [loc EXCEPT ![i].thrown = "getDb"]
    /\ Finish(i, Rejected)
    /\ UNCHANGED <<store, clock, call, qlog, prev>>

\* RelPairQuery going on to the product query whatever the pair query returned
RelPairQuery_Eager(i) ==
    /\ pc[i] = "rel_pair"
    /\ Issue(i, "pair")
    /\ Goto(i, "rel_product")
    /\ UNCHANGED <<store, clock, call, loc, prev>>

RelPairQuery(i) ==
    /\ pc[i] = "rel_pair"
    /\ Issue(i, "pair")
    /\ LET h == RelFetchPairHistory(store, call[i].customerNr, call[i].productId)
       IN  IF Len(h) = 0 THEN Goto(i, "rel_product")
           ELSE Finish(i, ReliabilityDirect(h, clock))
    /\ UNCHANGED <<store, clock, call, loc, prev>>

RelProductQuery(i) ==
    /\ pc[i] = "rel_product"
    /\ Issue(i, "product")
    /\ LET h == RelFetchProductHistory(store, call[i].productId)
       IN  IF Len(h) > 0 THEN Finish(i, ReliabilityProduct(h, clock))
           ELSE Goto(i, "rel_customer")
    /\ UNCHANGED <<store, clock, call, loc, prev>>

RelCustomerQuery(i) ==
    /\ pc[i] = "rel_customer"
    /\ Issue(i, "customer")
    /\ LET h == RelFetchCustomerHistory(store, call[i].customerNr)
       IN  IF Len(h) > 0
           THEN \E jitter \in 0..9 : Finish(i, ReliabilityCustomer(h, clock, jitter))
           ELSE Finish(i, ReliabilityNoHistory(call[i].productId))
    /\ UNCHANGED <<store, clock, call, loc, prev>>

\* the query the call awaits throws: the catch block returns the default
RelQueryFails(i) ==
    /\ pc[i] \in {"rel_pair", "rel_product", "rel_customer"}
    /\ Issue(i, "failed")
    /\ loc' = [loc EXCEPT ![i].thrown = "query"]
    /\ Finish(i, ReliabilityDefault)
    /\ UNCHANGED <<store, clock, call, prev>>

(***************************************************************************)
(* Specification of the reliability estimator                              *)
(***************************************************************************)
RelMarkups == <<Null, <<0>>, <<20>>>>

RelDates == <<NoDate, BadDate, Day(300), Day(500)>>

RelKinds == Len(OfferPairs) * Len(RelMarkups) * Len(RelDates)

RelKindOf(k) ==
    LET pair == OfferPairs[(k % Len(OfferPairs)) + 1]
        m == RelMarkups[((k \div Len(OfferPairs)) % Len(RelMarkups)) + 1]
        dt == RelDates[(k \div (Len(OfferPairs) * Len(RelMarkups))) + 1]
    IN  Offer(pair.c, pair.p, 1, <<1>>, m, dt)

InitCalls ==
    /\ clock = Clock0
    /\ pc = [i \in {1} |-> "idle"]
    /\ call = [i \in {1} |-> NoCall]
    /\ loc = [i \in {1} |-> NoLoc]
    /\ result = [i \in {1} |-> NoResult]
    /\ qlog = [i \in {1} |-> <<>>]
    /\ prev = NoPrev

InitRel ==
    /\ store \in { [i \in 1..Len(f) |-> RelKindOf(f[i])] : f \in KindSeqs(RelKinds, MaxOffers) }
    /\ InitCalls

NextRel ==
    \/ Tick
    \/ \E i \in DOMAIN pc, c \in CallCustomers, p \in CallProducts :
           CalculateProductReliability(i, c, p)
    \/ \E i \in DOMAIN pc : RelGetDb(i)
    \/ \E i \in DOMAIN pc : RelGetDbFails(i)
    \/ \E i \in DOMAIN pc : RelPairQuery(i)
    \/ \E i \in DOMAIN pc : RelProductQuery(i)
    \/ \E i \in DOMAIN pc : RelCustomerQuery(i)
    \/ \E i \in DOMAIN pc : RelQueryFails(i)
    \/ \E i \in DOMAIN pc : Return(i)

SpecRel == InitRel /\ [][NextRel]_vars

(***************************************************************************)
(* ProbabilityCalculator._calculateSuccessProbability and                  *)
(* _calculateFallbackProbability, entered from calculateSuccessProbability *)
(* and from calculateSuggestedMarkup                                       *)
(***************************************************************************)
ProbabilityResult(p) == [kind |-> "probability", probability |-> p]

\* the probability goes back to the entry point the call came in by
FinishProbability(i, p) ==
    Finish(i, IF call[i].est = "probability" THEN ProbabilityResult(p)
              ELSE MarkupResult(loc[i].markup, p, loc[i].historyCount, loc[i].baseMarkup,
                                loc[i].clientHistory, loc[i].volumeDiscount))

CalculateSuccessProbability(i, customerNr, productId, markup) ==
    /\ pc[i] = "idle"
    /\ call' = [call EXCEPT ![i] = [est |-> "probability", customerNr |-> customerNr,
                                    productId |-> productId, markup |-> R(markup),
                                    quantity |-> 0]]
    /\ loc' = [loc EXCEPT ![i].markup = R(markup)]
    /\ pc' = [pc EXCEPT ![i] = "prob_getDb"]
    /\ UNCHANGED <<store, clock, result, qlog, prev>>

ProbGetDb(i) ==
    /\ pc[i] = "prob_getDb"
    /\ Goto(i, "p_pair")
    /\ UNCHANGED <<store, clock, call, loc, qlog, prev>>

\* getDb() rejects: calculateSuccessProbability has no try block
ProbGetDbFails(i) ==
    /\ pc[i] = "prob_getDb"
    /\ loc' = [loc EXCEPT ![i].thrown = "getDb"]
    /\ Finish(i, Rejected)
    /\ UNCHANGED <<store, clock, call, qlog, prev>>

ProbPairQuery(i) ==
    /\ pc[i] = "p_pair"
    /\ Issue(i, "prob_pair")
    /\ LET history == ProbFetchPairHistory(store, call[i].customerNr, call[i].productId)
       IN  IF HasSimilarPairOffers(history, loc[i].markup)
           THEN FinishProbability(i, PrimaryProbability(history, loc[i].markup))
           ELSE Goto(i, "p_product")
    /\ UNCHANGED <<store, clock, call, loc, prev>>

ProbProductQuery(i) ==
    /\ pc[i] = "p_product"
    /\ Issue(i, "prob_product")
    /\ loc' = [loc EXCEPT ![i].productHistory =
                              ProbFetchProductHistory(store, call[i].productId)]
    /\ Goto(i, "p_customer")
    /\ UNCHANGED <<store, clock, call, prev>>

ProbCustomerQuery(i) ==
    /\ pc[i] = "p_customer"
    /\ Issue(i, "prob_customer")
    /\ LET customerHistory == ProbFetchCustomerHistory(store, call[i].customerNr)
       IN  FinishProbability(i, FallbackProbability(loc[i].productHistory, customerHistory,
                                   loc[i].markup, call[i].productId, call[i].customerNr))
    /\ loc' = [loc EXCEPT ![i].productHistory = <<>>]
    /\ UNCHANGED <<store, clock, call, prev>>

\* the query the call awaits throws: calculateSuggestedMarkup catches it,
\* calculateSuccessProbability does not
ProbQueryFails(i) ==
    /\ pc[i] \in {"p_pair", "p_product", "p_customer"}
    /\ Issue(i, "failed")
    /\ loc' = [loc EXCEPT ![i].thrown = "query"]
    /\ Finish(i, IF call[i].est = "probability" THEN Rejected ELSE MarkupDefault)
    /\ UNCHANGED <<store, clock, call, prev>>

(***************************************************************************)
(* calculateSuggestedMarkup                                                *)
(***************************************************************************)
CalculateSuggestedMarkup(i, customerNr, productId, quantity) ==
    /\ pc[i] = "idle"
    /\ call' = [call EXCEPT ![i] = [est |-> "markup", customerNr |-> customerNr,
                                    productId |-> productId, markup |-> R(0),
                                    quantity |-> quantity]]
    /\ pc' = [pc EXCEPT ![i] = "mk_getDb"]
    /\ UNCHANGED <<store, clock, loc, result, qlog, prev>>

\* const db = await getDb(), before the try block
MkGetDb(i) ==
    /\ pc[i] = "mk_getDb"
    /\ loc' = [loc EXCEPT ![i].markup = R(DEFAULT_MARKUP),
                          ![i].baseMarkup = R(DEFAULT_MARKUP)]
    /\ Goto(i, "mk_pair")
    /\ UNCHANGED <<store, clock, call, qlog, prev>>

\* getDb() rejects: nothing catches it
MkGetDbFails(i) ==
    /\ pc[i] = "mk_getDb"
    /\ loc' = [loc EXCEPT ![i].thrown = "getDb"]
    /\ Finish(i, Rejected)
    /\ UNCHANGED <<store, clock, call, qlog, prev>>

MkPairQuery(i) ==
    /\ pc[i] = "mk_pair"
    /\ Issue(i, "mk_pair")
    /\ LET history == FetchProductCustomerHistorySuccess(store, call[i].customerNr,
                                                         call[i].productId)
       IN  IF Len(history) > 0
           THEN /\ loc' = [loc EXCEPT ![i].historyCount = Len(history),
                                      ![i].markup = ComputeWeightedMarkup(history),
                                      ![i].baseMarkup = ComputeWeightedMarkup(history),
                                      ![i].history = history]
                /\ Goto(i, "mk_client")
           ELSE /\ UNCHANGED loc
                /\ Goto(i, "mk_product")
    /\ UNCHANGED <<store, clock, call, prev>>

\* the query of _calculateClientHistoryAdjustment, then the volume discount
MkClientQuery(i) ==
    /\ pc[i] = "mk_client"
    /\ Issue(i, "mk_client")
    /\ LET allHistory == FetchCompleteCustomerHistory(store, call[i].customerNr)
           clientAdjustment == ClientHistoryAdjustment(allHistory)
           volumeDisc == CalculateVolumeDiscount(call[i].quantity, loc[i].history)
       IN  loc' = [loc EXCEPT ![i].clientHistory = Factor(clientAdjustment),
                              ![i].volumeDiscount = Factor(volumeDisc),
                              ![i].markup = Add(Add(@, clientAdjustment), volumeDisc),
                              ![i].history = <<>>]
    /\ Goto(i, "p_pair")
    /\ UNCHANGED <<store, clock, call, prev>>

\* MkProductQuery keeping the fetched product history in one place for all calls
MkProductQuery_SharedHistory(i) ==
    /\ pc[i] = "mk_product"
    /\ Issue(i, "mk_product")
    /\ loc' = [j \in DOMAIN loc |->
                  [loc[j] EXCEPT !.productHistory =
                                     FetchGeneralProductHistorySuccess(store, call[i].productId)]]
    /\ Goto(i, "mk_customer")
    /\ UNCHANGED <<store, clock, call, prev>>

MkProductQuery(i) ==
    /\ pc[i] = "mk_product"
    /\ Issue(i, "mk_product")
    /\ loc' = [loc EXCEPT ![i].productHistory =
                              FetchGeneralProductHistorySuccess(store, call[i].productId)]
    /\ Goto(i, "mk_customer")
    /\ UNCHANGED <<store, clock, call, prev>>

MkCustomerQuery(i) ==
    /\ pc[i] = "mk_customer"
    /\ Issue(i, "mk_customer")
    /\ LET generalProductHistory == loc[i].productHistory
           generalCustomerHistory ==
               FetchGeneralCustomerHistorySuccess(store, call[i].customerNr)
           historyCount == Len(generalProductHistory) + Len(generalCustomerHistory)
           markup == CombineFallbackHistories(generalProductHistory, generalCustomerHistory,
                                              call[i].quantity, call[i].productId)
           volumeDisc == IF historyCount > 0
                         THEN CalculateVolumeDiscount(call[i].quantity,
                                  generalProductHistory \o generalCustomerHistory)
                         ELSE R(0)
       IN  loc' = [loc EXCEPT ![i].historyCount = historyCount,
                              ![i].baseMarkup = markup,
                              ![i].volumeDiscount = Factor(volumeDisc),
                              ![i].markup = Add(markup, volumeDisc),
                              ![i].productHistory = <<>>]
    /\ Goto(i, "p_product")
    /\ UNCHANGED <<store, clock, call, prev>>

\* the query the call awaits throws: the catch block returns the default
MkQueryFails(i) ==
    /\ pc[i] \in {"mk_pair", "mk_client", "mk_product", "mk_customer"}
    /\ Issue(i, "failed")
    /\ loc' = [loc EXCEPT ![i].thrown = "query"]
    /\ Finish(i, MarkupDefault)
    /\ UNCHANGED <<store, clock, call, prev>>

(***************************************************************************)
(* Specification of the probability and markup estimators                  *)
(***************************************************************************)
MkMarkups == <<Null, <<-20>>, <<28>>, <<1200>>>>

MkKinds == Len(OfferPairs) * 2 * Len(MkMarkups)

MkKindOf(k) ==
    LET pair == OfferPairs[(k % Len(OfferPairs)) + 1]
        s == (k \div Len(OfferPairs)) % 2
        m == MkMarkups[(k \div (Len(OfferPairs) * 2)) + 1]
    IN  Offer(pair.c, pair.p, s, <<4>>, m, NoDate)

\* the markups and quantities the entry points are called with
CallMarkups == {12, 20, 30, 36}

CallQuantities == {1, 4, 30}

InitMk ==
    /\ store \in { [i \in 1..Len(f) |-> MkKindOf(f[i])] : f \in KindSeqs(MkKinds, MaxOffers) }
    /\ InitCalls

NextMk ==
    \/ \E i \in DOMAIN pc, c \in CallCustomers, p \in CallProducts, m \in CallMarkups :
           CalculateSuccessProbability(i, c, p, m)
    \/ \E i \in DOMAIN pc, c \in CallCustomers, p \in CallProducts, q \in CallQuantities :
           CalculateSuggestedMarkup(i, c, p, q)
    \/ \E i \in DOMAIN pc : ProbGetDb(i)
    \/ \E i \in DOMAIN pc : ProbGetDbFails(i)
    \/ \E i \in DOMAIN pc : ProbPairQuery(i)
    \/ \E i \in DOMAIN pc : ProbProductQuery(i)
    \/ \E i \in DOMAIN pc : ProbCustomerQuery(i)
    \/ \E i \in DOMAIN pc : ProbQueryFails(i)
    \/ \E i \in DOMAIN pc : MkGetDb(i)
    \/ \E i \in DOMAIN pc : MkGetDbFails(i)
    \/ \E i \in DOMAIN pc : MkPairQuery(i)
    \/ \E i \in DOMAIN pc : MkClientQuery(i)
    \/ \E i \in DOMAIN pc : MkProductQuery(i)
    \/ \E i \in DOMAIN pc : MkCustomerQuery(i)
    \/ \E i \in DOMAIN pc : MkQueryFails(i)
    \/ \E i \in DOMAIN pc : Return(i)

SpecMk == InitMk /\ [][NextMk]_vars

(***************************************************************************)
(* Specification of the primary path: offers of one pair, with markups     *)
(* inside and outside the window around the proposed ones                  *)
(***************************************************************************)
PrimMarkups == <<Null, <<17>>, <<25>>, <<26>>>>

PrimKinds == 2 * Len(PrimMarkups)

PrimKindOf(k) == Offer(Cust7, Prod00, k % 2, <<4>>, PrimMarkups[(k \div 2) + 1], NoDate)

PrimCallMarkups == {20, 31}

InitPrim ==
    /\ store \in { [i \in 1..Len(f) |-> PrimKindOf(f[i])] : f \in KindSeqs(PrimKinds, MaxHistory) }
    /\ InitCalls

NextPrim ==
    \/ \E i \in DOMAIN pc, m \in PrimCallMarkups :
           CalculateSuccessProbability(i, Cust7, Prod00, m)
    \/ \E i \in DOMAIN pc : ProbGetDb(i)
    \/ \E i \in DOMAIN pc : ProbGetDbFails(i)
    \/ \E i \in DOMAIN pc : ProbPairQuery(i)
    \/ \E i \in DOMAIN pc : ProbProductQuery(i)
    \/ \E i \in DOMAIN pc : ProbCustomerQuery(i)
    \/ \E i \in DOMAIN pc : ProbQueryFails(i)
    \/ \E i \in DOMAIN pc : Return(i)

SpecPrim == InitPrim /\ [][NextPrim]_vars

(***************************************************************************)
(* Specifications of the helpers of calculateSuggestedMarkup, each applied *)
(* to the history its query fetches from a table of up to MaxHistory rows  *)
(***************************************************************************)
NumberResult(x) == [kind |-> "number", value |-> x]

Apply(i, name, quantity, value) ==
    /\ pc[i] = "idle"
    /\ call' = [call EXCEPT ![i] = [est |-> name, customerNr |-> Cust7,
                                    productId |-> Prod00, markup |-> R(0),
                                    quantity |-> quantity]]
    /\ Finish(i, NumberResult(value))
    /\ UNCHANGED <<store, clock, loc, qlog, prev>>

\* _computeWeightedMarkup(history) as calculateSuggestedMarkup calls it
ApplyComputeWeightedMarkup(i) ==
    Apply(i, "computeWeightedMarkup", 0,
          ComputeWeightedMarkup(FetchProductCustomerHistorySuccess(store, Cust7, Prod00)))

WmMarkups == <<Null, <<10>>, <<30>>, <<40>>>>

WmKindOf(k) == Offer(Cust7, Prod00, 1, <<4>>, WmMarkups[k + 1], NoDate)

InitWeighted ==
    /\ store \in { [i \in 1..Len(f) |-> WmKindOf(f[i])] : f \in KindSeqs(Len(WmMarkups), MaxHistory) }
    /\ InitCalls

NextWeighted ==
    \/ \E i \in DOMAIN pc : ApplyComputeWeightedMarkup(i)
    \/ \E i \in DOMAIN pc : Return(i)

SpecWeighted == InitWeighted /\ [][NextWeighted]_vars

\* _calculateClientHistoryAdjustment(db, customerNr)
ApplyClientHistoryAdjustment(i) ==
    Apply(i, "clientHistoryAdjustment", 0,
          ClientHistoryAdjustment(FetchCompleteCustomerHistory(store, Cust7)))

ChCustomers == <<Cust7, Cust8>>

ChKindOf(k) == Offer(ChCustomers[(k \div 2) + 1], Prod00, k % 2, <<4>>, <<20>>, NoDate)

InitClient ==
    /\ store \in { [i \in 1..Len(f) |-> ChKindOf(f[i])] : f \in KindSeqs(2 * Len(ChCustomers), MaxHistory) }
    /\ InitCalls

NextClient ==
    \/ \E i \in DOMAIN pc : ApplyClientHistoryAdjustment(i)
    \/ \E i \in DOMAIN pc : Return(i)

SpecClient == InitClient /\ [][NextClient]_vars

\* _calculateVolumeDiscount(quantity, history) as calculateSuggestedMarkup calls it
ApplyVolumeDiscount(i, quantity) ==
    Apply(i, "volumeDiscount", quantity,
          CalculateVolumeDiscount(quantity,
              FetchProductCustomerHistorySuccess(store, Cust7, Prod00)))

VdQuantities == <<Null, <<0>>, <<2>>, <<4>>>>

VdKindOf(k) == Offer(Cust7, Prod00, 1, VdQuantities[k + 1], <<20>>, NoDate)

MaxQuantity == 12

InitVolume ==
    /\ store \in { [i \in 1..Len(f) |-> VdKindOf(f[i])] : f \in KindSeqs(Len(VdQuantities), MaxHistory) }
    /\ InitCalls

NextVolume ==
    \/ \E i \in DOMAIN pc, q \in 0..MaxQuantity : ApplyVolumeDiscount(i, q)
    \/ \E i \in DOMAIN pc : Return(i)

SpecVolume == InitVolume /\ [][NextVolume]_vars

(***************************************************************************)
(* Specification of repeated reliability estimates over one store          *)
(***************************************************************************)
NextIdem ==
    \/ Tick
    \/ \E i \in DOMAIN pc, c \in CallCustomers, p \in CallProducts :
           CalculateProductReliability(i, c, p)
    \/ \E i \in DOMAIN pc : RelGetDb(i)
    \/ \E i \in DOMAIN pc : RelGetDbFails(i)
    \/ \E i \in DOMAIN pc : RelPairQuery(i)
    \/ \E i \in DOMAIN pc : RelProductQuery(i)
    \/ \E i \in DOMAIN pc : RelCustomerQuery(i)
    \/ \E i \in DOMAIN pc : RelQueryFails(i)
    \/ \E i \in DOMAIN pc : ReturnTracked(i)

SpecIdem == InitRel /\ [][NextIdem]_vars

(***************************************************************************)
(* Specifications of the helpers of calculateProductReliability, each      *)
(* applied to the pair history fetched from a table of up to MaxHistory    *)
(* rows                                                                    *)
(***************************************************************************)
\* _calculateDataConsistency(history) as the direct branch calls it
ApplyDataConsistency(i) ==
    Apply(i, "dataConsistency", 0,
          CalculateDataConsistency(RelFetchPairHistory(store, Cust7, Prod00)))

DcMarkups == <<Null, <<-10>>, <<0>>, <<8>>, <<10>>>>

DcKindOf(k) == Offer(Cust7, Prod00, 1, <<4>>, DcMarkups[k + 1], NoDate)

InitConsistency ==
    /\ store \in { [i \in 1..Len(f) |-> DcKindOf(f[i])] :
                       f \in KindSeqs(Len(DcMarkups), MaxHistory) }
    /\ InitCalls

NextConsistency ==
    \/ \E i \in DOMAIN pc : ApplyDataConsistency(i)
    \/ \E i \in DOMAIN pc : Return(i)

SpecConsistency == InitConsistency /\ [][NextConsistency]_vars

\* _calculateDataRecency(history) as the direct branch calls it; the function
\* is synchronous and reads new Date() once
ApplyDataRecency(i) ==
    Apply(i, "dataRecency", 0,
          CalculateDataRecency(RelFetchPairHistory(store, Cust7, Prod00), clock))

\* time passes between two applications
TickBetweenCalls == Tick /\ \A i \in DOMAIN pc : pc[i] = "idle"

DrDates == <<NoDate, BadDate, Day(0), Day(35), Day(300), Day(500)>>

DrKindOf(k) == Offer(Cust7, Prod00, 1, <<4>>, <<20>>, DrDates[k + 1])

InitRecency ==
    /\ store \in { [i \in 1..Len(f) |-> DrKindOf(f[i])] :
                       f \in KindSeqs(Len(DrDates), MaxHistory) }
    /\ InitCalls

NextRecency ==
    \/ TickBetweenCalls
    \/ \E i \in DOMAIN pc : ApplyDataRecency(i)
    \/ \E i \in DOMAIN pc : Return(i)

SpecRecency == InitRecency /\ [][NextRecency]_vars

(***************************************************************************)
(* Specification of concurrent estimates: two calls in flight over one     *)
(* store, interleaved at their awaits                                      *)
(***************************************************************************)
\* calculateProductReliability run from call to return with no other call
\* in flight; now and jitter are what new Date() and Math.random() give it
ReliabilityAlone(db, customerNr, productId, now, jitter) ==
    LET productCustomerHistory == RelFetchPairHistory(db, customerNr, productId)
        productHistory == RelFetchProductHistory(db, productId)
        customerHistory == RelFetchCustomerHistory(db, customerNr)
    IN  IF Len(productCustomerHistory) # 0 THEN ReliabilityDirect(productCustomerHistory, now)
        ELSE IF Len(productHistory) > 0 THEN ReliabilityProduct(productHistory, now)
        ELSE IF Len(customerHistory) > 0 THEN ReliabilityCustomer(customerHistory, now, jitter)
        ELSE ReliabilityNoHistory(productId)

\* _calculateSuccessProbability run alone
ProbabilityAlone(db, markup, productId, customerNr) ==
    LET history == ProbFetchPairHistory(db, customerNr, productId)
    IN  IF HasSimilarPairOffers(history, markup) THEN PrimaryProbability(history, markup)
        ELSE FallbackProbability(ProbFetchProductHistory(db, productId),
                                 ProbFetchCustomerHistory(db, customerNr),
                                 markup, productId, customerNr)

\* calculateSuggestedMarkup run alone
MarkupAlone(db, customerNr, productId, quantity) ==
    LET history == FetchProductCustomerHistorySuccess(db, customerNr, productId)
    IN  IF Len(history) > 0
        THEN LET base == ComputeWeightedMarkup(history)
                 clientAdjustment ==
                     ClientHistoryAdjustment(FetchCompleteCustomerHistory(db, customerNr))
                 volumeDisc == CalculateVolumeDiscount(quantity, history)
                 markup == Add(Add(base, clientAdjustment), volumeDisc)
             IN  MarkupResult(markup, ProbabilityAlone(db, markup, productId, customerNr),
                              Len(history), base, Factor(clientAdjustment), Factor(volumeDisc))
        ELSE LET generalProductHistory == FetchGeneralProductHistorySuccess(db, productId)
                 generalCustomerHistory == FetchGeneralCustomerHistorySuccess(db, customerNr)
                 historyCount == Len(generalProductHistory) + Len(generalCustomerHistory)
                 base == CombineFallbackHistories(generalProductHistory,
                             generalCustomerHistory, quantity, productId)
                 volumeDisc == IF historyCount > 0
                               THEN CalculateVolumeDiscount(quantity,
                                        generalProductHistory \o generalCustomerHistory)
                               ELSE R(0)
                 markup == Add(base, volumeDisc)
             IN  MarkupResult(markup,
                     FallbackProbability(ProbFetchProductHistory(db, productId),
                                         ProbFetchCustomerHistory(db, customerNr),
                                         markup, productId, customerNr),
                     historyCount, base, Null, Factor(volumeDisc))

\* a won offer of each pair, and a lost one of the first
ConcKinds == Len(OfferPairs) + 1

ConcKindOf(k) ==
    LET pair == OfferPairs[(k % Len(OfferPairs)) + 1]
    IN  Offer(pair.c, pair.p, 1 - (k \div Len(OfferPairs)), <<4>>, <<28>>, Day(300))

\* two calls can be in flight
InitConc ==
    /\ store \in { [i \in 1..Len(f) |-> ConcKindOf(f[i])] : f \in KindSeqs(ConcKinds, MaxOffers) }
    /\ clock = Clock0
    /\ pc = [i \in {1, 2} |-> "idle"]
    /\ call = [i \in {1, 2} |-> NoCall]
    /\ loc = [i \in {1, 2} |-> NoLoc]
    /\ result = [i \in {1, 2} |-> NoResult]
    /\ qlog = [i \in {1, 2} |-> <<>>]
    /\ prev = NoPrev

NextConc ==
    \/ \E i \in DOMAIN pc, c \in CallCustomers, p \in CallProducts :
           CalculateProductReliability(i, c, p)
    \/ \E i \in DOMAIN pc, c \in CallCustomers, p \in CallProducts :
           CalculateSuccessProbability(i, c, p, 30)
    \/ \E i \in DOMAIN pc, c \in CallCustomers, p \in CallProducts :
           CalculateSuggestedMarkup(i, c, p, 4)
    \/ \E i \in DOMAIN pc : RelGetDb(i)
    \/ \E i \in DOMAIN pc : RelPairQuery(i)
    \/ \E i \in DOMAIN pc : RelProductQuery(i)
    \/ \E i \in DOMAIN pc : RelCustomerQuery(i)
    \/ \E i \in DOMAIN pc : RelGetDbFails(i)
    \/ \E i \in DOMAIN pc : RelQueryFails(i)
    \/ \E i \in DOMAIN pc : ProbGetDb(i)
    \/ \E i \in DOMAIN pc : ProbPairQuery(i)
    \/ \E i \in DOMAIN pc : ProbProductQuery(i)
    \/ \E i \in DOMAIN pc : ProbCustomerQuery(i)
    \/ \E i \in DOMAIN pc : ProbGetDbFails(i)
    \/ \E i \in DOMAIN pc : ProbQueryFails(i)
    \/ \E i \in DOMAIN pc : MkGetDb(i)
    \/ \E i \in DOMAIN pc : MkPairQuery(i)
    \/ \E i \in DOMAIN pc : MkClientQuery(i)
    \/ \E i \in DOMAIN pc : MkProductQuery(i)
    \/ \E i \in DOMAIN pc : MkCustomerQuery(i)
    \/ \E i \in DOMAIN pc : MkGetDbFails(i)
    \/ \E i \in DOMAIN pc : MkQueryFails(i)
    \/ \E i \in DOMAIN pc : Return(i)

SpecConc == InitConc /\ [][NextConc]_vars

(***************************************************************************)
(* Specification of the probability estimator on its fallback path: the    *)
(* table holds offers of the product to another customer and of the        *)
(* customer for another product                                            *)
(***************************************************************************)
FbPairs == <<[c |-> Cust8, p |-> Prod00], [c |-> Cust7, p |-> Prod95]>>

FbMarkups == <<<<20>>, <<45>>>>

\* an offer without a markup of each pair, then lost and won offers of each
\* pair at each markup
FbKinds == Len(FbPairs) + Len(FbPairs) * 2 * Len(FbMarkups)

FbKindOf(k) ==
    IF k < Len(FbPairs)
    THEN Offer(FbPairs[k + 1].c, FbPairs[k + 1].p, 1, <<4>>, Null, NoDate)
    ELSE LET j == k - Len(FbPairs)
             pair == FbPairs[(j % Len(FbPairs)) + 1]
             s == (j \div Len(FbPairs)) % 2
             m == FbMarkups[(j \div (Len(FbPairs) * 2)) + 1]
         IN  Offer(pair.c, pair.p, s, <<4>>, m, NoDate)

\* the markups the estimate is asked for: one of each tier
FbCallMarkups == {8, 12, 20, 30, 40}

InitFallback ==
    /\ store \in { [i \in 1..Len(f) |-> FbKindOf(f[i])] : f \in KindSeqs(FbKinds, MaxHistory) }
    /\ InitCalls

NextFallback ==
    \/ \E i \in DOMAIN pc, p \in CallProducts, m \in FbCallMarkups :
           CalculateSuccessProbability(i, Cust7, p, m)
    \/ \E i \in DOMAIN pc : ProbGetDb(i)
    \/ \E i \in DOMAIN pc : ProbGetDbFails(i)
    \/ \E i \in DOMAIN pc : ProbPairQuery(i)
    \/ \E i \in DOMAIN pc : ProbProductQuery(i)
    \/ \E i \in DOMAIN pc : ProbCustomerQuery(i)
    \/ \E i \in DOMAIN pc : ProbQueryFails(i)
    \/ \E i \in DOMAIN pc : Return(i)

SpecFallback == InitFallback /\ [][NextFallback]_vars

(***************************************************************************)
(* Specification of the markup estimator without successful pair history:  *)
(* won offers of the product to another customer and of the customer for   *)
(* another product, with different quantities, and a lost offer of the     *)
(* pair                                                                    *)
(***************************************************************************)
FmMarkups == <<<<20>>, <<28>>>>

FmQuantities == <<Null, <<2>>, <<10>>>>

FmKinds == Len(FbPairs) * Len(FmMarkups) * Len(FmQuantities) + 1

FmKindOf(k) ==
    IF k = FmKinds - 1 THEN Offer(Cust7, Prod00, 0, <<4>>, <<28>>, NoDate)
    ELSE LET pair == FbPairs[(k % Len(FbPairs)) + 1]
             m == FmMarkups[((k \div Len(FbPairs)) % Len(FmMarkups)) + 1]
             q == FmQuantities[(k \div (Len(FbPairs) * Len(FmMarkups))) + 1]
         IN  Offer(pair.c, pair.p, 1, q, m, NoDate)

FmCallQuantities == {1, 3, 4, 12, 30}

InitFbMarkup ==
    /\ store \in { [i \in 1..Len(f) |-> FmKindOf(f[i])] : f \in KindSeqs(FmKinds, MaxOffers) }
    /\ InitCalls

NextFbMarkup ==
    \/ \E i \in DOMAIN pc, p \in CallProducts, q \in FmCallQuantities :
           CalculateSuggestedMarkup(i, Cust7, p, q)
    \/ \E i \in DOMAIN pc : MkGetDb(i)
    \/ \E i \in DOMAIN pc : MkGetDbFails(i)
    \/ \E i \in DOMAIN pc : MkPairQuery(i)
    \/ \E i \in DOMAIN pc : MkClientQuery(i)
    \/ \E i \in DOMAIN pc : MkProductQuery(i)
    \/ \E i \in DOMAIN pc : MkCustomerQuery(i)
    \/ \E i \in DOMAIN pc : MkQueryFails(i)
    \/ \E i \in DOMAIN pc : ProbPairQuery(i)
    \/ \E i \in DOMAIN pc : ProbProductQuery(i)
    \/ \E i \in DOMAIN pc : ProbCustomerQuery(i)
    \/ \E i \in DOMAIN pc : ProbQueryFails(i)
    \/ \E i \in DOMAIN pc : Return(i)

SpecFbMarkup == InitFbMarkup /\ [][NextFbMarkup]_vars

(***************************************************************************)
(* Properties                                                              *)
(***************************************************************************)
Settled(i) == pc[i] = "done"

\* x is a finite number of [lo, hi]
Within(x, lo, hi) == IsFinite(x) /\ Le(R(lo), x) /\ Le(x, R(hi))

\* the table holds no offer of the customer and none of the product
NoHistoryFor(customerNr, productId) ==
    \A k \in 1..Len(store) :
        store[k].customer__nr # customerNr /\ store[k].product__id # productId

\* C1: every entry point is total: a call whose getDb() or query failed
\* settles with the estimator's degraded default, never with a rejection,
\* and issues no query after the failed one.
C1_EntryPointsTotal ==
    \A i \in DOMAIN pc :
        Settled(i) /\ loc[i].thrown # "none" =>
            /\ result[i] # Rejected
            /\ call[i].est = "reliability" => result[i] = ReliabilityDefault
            /\ call[i].est = "markup" => result[i] = MarkupDefault
            /\ \A k \in 1..Len(qlog[i]) : qlog[i][k] = "failed" => k = Len(qlog[i])

\* C2: the reliability and its four factors are finite numbers of [0, 100]
\* whatever the table holds.
C2_ReliabilityInRange ==
    \A i \in DOMAIN pc :
        Settled(i) /\ result[i].kind = "reliability" =>
            /\ Within(result[i].reliability, 0, 100)
            /\ Within(result[i].directHistory, 0, 100)
            /\ Within(result[i].dataRecency, 0, 100)
            /\ Within(result[i].dataConsistency, 0, 100)
            /\ Within(result[i].fallbacksUsed, 0, 100)

\* C3: over an unchanged table, a call with the arguments of the call
\* before it, failing where that call failed if it did, returns what that
\* call returned.
C3_Idempotent ==
    \A i \in DOMAIN pc :
        Settled(i) /\ prev.call = call[i] /\ prev.thrown = loc[i].thrown
            => result[i] = prev.result

\* C8 (as amended): with no pair, product or customer history, directHistory
\* is 5 + (the character-code sum of productId) % 15; productId "00"
\* (48 + 48 = 96) gives 11.
C8_NoHistoryDirectHistory ==
    \A i \in DOMAIN pc :
        /\ Settled(i) /\ call[i].est = "reliability" /\ loc[i].thrown = "none"
        /\ NoHistoryFor(call[i].customerNr, call[i].productId)
        => /\ result[i].directHistory = R(5 + (CharCodeSum(call[i].productId) % 15))
           /\ call[i].productId = Prod00 => result[i].directHistory = R(11)

\* C8 as stated: with no history at all, productId "00" gives directHistory 5.
C8_DirectHistoryFiveFor00 ==
    \A i \in DOMAIN pc :
        /\ Settled(i) /\ call[i].est = "reliability" /\ loc[i].thrown = "none"
        /\ NoHistoryFor(call[i].customerNr, call[i].productId)
        /\ call[i].productId = Prod00
        => result[i].directHistory = R(5)

C8_Witness ==
    \E i \in DOMAIN pc :
        /\ Settled(i) /\ call[i].est = "reliability" /\ loc[i].thrown = "none"
        /\ NoHistoryFor(call[i].customerNr, call[i].productId)
        /\ call[i].productId = Prod00
        /\ qlog[i] = <<"pair", "product", "customer">>
        /\ result[i].directHistory = R(11)

\* C4: the suggested markup is a number of [1, 1000] with at most one
\* decimal place, on every path of calculateSuggestedMarkup.
C4_SuggestedMarkupInRange ==
    \A i \in DOMAIN pc :
        Settled(i) /\ result[i].kind = "markup" =>
            /\ Within(result[i].suggestedMarkup, MIN_MARKUP, MAX_MARKUP)
            /\ 10 % result[i].suggestedMarkup.d = 0

\* a markup above the limit, computed from history, comes back as the limit
C4_Witness ==
    \E i \in DOMAIN pc :
        /\ Settled(i) /\ result[i].kind = "markup" /\ loc[i].thrown = "none"
        /\ Gt(loc[i].markup, R(MAX_MARKUP))
        /\ result[i].suggestedMarkup = R(MAX_MARKUP)

\* C5: the probability calculateSuccessProbability returns, and the
\* probability of every MarkupResult, is a number of [0, 100].
C5_ProbabilityInRange ==
    \A i \in DOMAIN pc :
        Settled(i) /\ result[i].kind \in {"probability", "markup"} =>
            Within(result[i].probability, 0, 100)

\* the blend of the estimate and the overall success rate was returned
C5_Witness ==
    \E i \in DOMAIN pc :
        /\ Settled(i) /\ result[i].kind = "probability"
        /\ qlog[i] = <<"prob_pair", "prob_product", "prob_customer">>
        /\ result[i].probability.d # 1

\* the rows of the pair whose markup is valid and within 5 points of m
SimilarRows(customerNr, productId, m) ==
    { k \in 1..Len(store) :
        LET o == store[k]
            cost == o.purchase_price__gross_purchase_price * o.rate
        IN  /\ o.customer__nr = customerNr /\ o.product__id = productId
            /\ cost # 0
            /\ Abs(100 * (o.offer_answer__box_price_chf - cost) - m * cost)
                   <= SIMILAR_MARKUP_THRESHOLD * Abs(cost) }

WonRows(rows) == { k \in rows : store[k].offer__success = 1 }

\* C6: when the pair has offers within 5 points of the proposed markup,
\* calculateSuccessProbability returns 100 * (successes among them) /
\* (their number) after the pair query alone.
C6_PrimaryPath ==
    \A i \in DOMAIN pc :
        LET similar == SimilarRows(call[i].customerNr, call[i].productId, call[i].markup.n)
        IN  /\ Settled(i) /\ call[i].est = "probability" /\ loc[i].thrown = "none"
            /\ similar # {}
            => /\ result[i] = ProbabilityResult(Rat(100 * Cardinality(WonRows(similar)),
                                                    Cardinality(similar)))
               /\ qlog[i] = <<"prob_pair">>

\* 4 similar offers with 3 successes, beside an offer outside the window: 75
C6_Witness ==
    \E i \in DOMAIN pc :
        LET similar == SimilarRows(call[i].customerNr, call[i].productId, call[i].markup.n)
        IN  /\ Settled(i) /\ call[i].est = "probability" /\ loc[i].thrown = "none"
            /\ Cardinality(similar) = 4 /\ Cardinality(WonRows(similar)) = 3
            /\ Len(store) = 5
            /\ result[i] = ProbabilityResult(R(75))

\* the rows with a valid stored markup, and that markup in whole points
ValidRows == { k \in 1..Len(store) : store[k].calculated_markup_percentage # Null }

PointsOf(k) == store[k].calculated_markup_percentage[1].n

RECURSIVE TotalUpTo(_, _)
TotalUpTo(f, k) == IF k = 0 THEN 0 ELSE f[k] + TotalUpTo(f, k - 1)

\* the sum of f over 1..Len(store)
Total(f) == TotalUpTo(f, Len(store))

\* the element at 0-based position idx of the ascending valid markups
ElementAt(idx) ==
    CHOOSE v \in { PointsOf(k) : k \in ValidRows } :
        /\ Cardinality({ k \in ValidRows : PointsOf(k) < v }) <= idx
        /\ Cardinality({ k \in ValidRows : PointsOf(k) <= v }) > idx

\* max(median, mean) + 2 with the median at position idx
MaxOfMedianAndMeanPlus2(idx) ==
    LET n == Cardinality(ValidRows)
        total == Total([k \in 1..Len(store) |-> IF k \in ValidRows THEN PointsOf(k) ELSE 0])
        median == ElementAt(idx)
    IN  IF total >= median * n THEN Rat(total + 2 * n, n) ELSE R(median + 2)

WeightedMarkupApplied(i) ==
    Settled(i) /\ call[i].est = "computeWeightedMarkup" /\ ValidRows # {}

\* C7 (as amended): over the valid markups the weighted markup is
\* max(median, mean) + 2, the median being the middle element of the
\* ascending values and the upper-middle one when their count is even;
\* a single markup of 30 yields 32.
C7_WeightedMarkup ==
    \A i \in DOMAIN pc :
        WeightedMarkupApplied(i) =>
            /\ result[i].value = MaxOfMedianAndMeanPlus2(Cardinality(ValidRows) \div 2)
            /\ (Cardinality(ValidRows) = 1 /\ \E k \in ValidRows : PointsOf(k) = 30)
                   => result[i].value = R(32)

\* C7 as stated: the median is the lower-middle element when the count is even.
C7_LowerMiddleMedian ==
    \A i \in DOMAIN pc :
        WeightedMarkupApplied(i) =>
            result[i].value = MaxOfMedianAndMeanPlus2((Cardinality(ValidRows) - 1) \div 2)

\* markups 10 and 30, and an invalid one: the upper-middle 30 gives 32
C7_Witness ==
    \E i \in DOMAIN pc :
        /\ WeightedMarkupApplied(i)
        /\ Len(store) = 3 /\ Cardinality(ValidRows) = 2
        /\ { PointsOf(k) : k \in ValidRows } = {10, 30}
        /\ result[i].value = R(32)

\* the customer's offers and the successful ones among them
CustomerRows(customerNr) == { k \in 1..Len(store) : store[k].customer__nr = customerNr }

\* C9: the client-history adjustment over all the customer's offers is
\* min(5, round(successRate * 5)) when successRate > 0.7, -2 when
\* successRate < 0.3 and there are more than 3 offers, and 0 otherwise,
\* also when there is none; 4 successes in 5 offers give 4.
C9_ClientHistoryAdjustment ==
    \A i \in DOMAIN pc :
        Settled(i) /\ call[i].est = "clientHistoryAdjustment" =>
            LET n == Cardinality(CustomerRows(call[i].customerNr))
                won == Cardinality(WonRows(CustomerRows(call[i].customerNr)))
                rounded == (10 * won + n) \div (2 * n)
            IN  /\ result[i].value =
                       IF n = 0 THEN R(0)
                       ELSE IF 10 * won > 7 * n
                            THEN R(IF rounded < 5 THEN rounded ELSE 5)
                       ELSE IF 10 * won < 3 * n /\ n > 3 THEN R(-2)
                       ELSE R(0)
                /\ (n = 5 /\ won = 4) => result[i].value = R(4)

C9_Witness ==
    \E i \in DOMAIN pc :
        /\ Settled(i) /\ call[i].est = "clientHistoryAdjustment"
        /\ Cardinality(CustomerRows(call[i].customerNr)) = 5
        /\ Cardinality(WonRows(CustomerRows(call[i].customerNr))) = 4
        /\ result[i].value = R(4)

\* the sum of the quantities of the table's rows, a missing one counting 0
TotalQuantity ==
    Total([k \in 1..Len(store) |->
              IF store[k].offer_answer__qty = Null THEN 0 ELSE store[k].offer_answer__qty[1]])

\* C10: against the average quantity of a non-empty history the volume
\* adjustment is -5 for a quantity above twice the average, else -3 above
\* 1.5 times, else +2 below half, else 0; three times a positive average
\* gives -5 and exactly twice the average does not.
C10_VolumeDiscount ==
    \A i \in DOMAIN pc :
        Settled(i) /\ call[i].est = "volumeDiscount" /\ Len(store) > 0 =>
            LET n == Len(store)
                q == call[i].quantity
            IN  /\ result[i].value =
                       IF q * n > 2 * TotalQuantity THEN R(-5)
                       ELSE IF 2 * q * n > 3 * TotalQuantity THEN R(-3)
                       ELSE IF 2 * q * n < TotalQuantity THEN R(2)
                       ELSE R(0)
                /\ (q * n = 3 * TotalQuantity /\ TotalQuantity > 0) => result[i].value = R(-5)
                /\ q * n = 2 * TotalQuantity => result[i].value # R(-5)

\* exactly twice a positive average: no -5, but the -3 of the next threshold
C10_Witness ==
    \E i \in DOMAIN pc :
        /\ Settled(i) /\ call[i].est = "volumeDiscount" /\ Len(store) > 0
        /\ TotalQuantity > 0
        /\ call[i].quantity * Len(store) = 2 * TotalQuantity
        /\ result[i].value = R(-3)

\* the sum and the sum of squares of the valid markups
TotalPoints == Total([k \in 1..Len(store) |-> IF k \in ValidRows THEN PointsOf(k) ELSE 0])

TotalSquares ==
    Total([k \in 1..Len(store) |-> IF k \in ValidRows THEN PointsOf(k) * PointsOf(k) ELSE 0])

\* stdDev / |mean| * 100 over the valid markups, their mean not being zero
CoefficientOfVariation ==
    LET n == Cardinality(ValidRows)
        variance == Rat(n * TotalSquares - TotalPoints * TotalPoints, n * n)
    IN  Mul(Div(MathSqrt(variance), Rat(Abs(TotalPoints), n)), R(100))

\* C11: dataConsistency is 0 for fewer than 2 valid markups and otherwise
\* max(0, 100 - 2 * CV), a number of [0, 100] for every set of valid
\* markups, those of mean zero included; markups 10, 10, 10 give 100.
C11_DataConsistency ==
    \A i \in DOMAIN pc :
        Settled(i) /\ call[i].est = "dataConsistency" =>
            LET n == Cardinality(ValidRows)
            IN  /\ Within(result[i].value, 0, 100)
                /\ n < 2 => result[i].value = R(0)
                /\ (n >= 2 /\ TotalPoints # 0) =>
                       result[i].value =
                           MathMax(R(0), Sub(R(100), Mul(CoefficientOfVariation, R(2))))
                /\ (n = 3 /\ Len(store) = 3 /\ \A k \in ValidRows : PointsOf(k) = 10) =>
                       result[i].value = R(100)

\* the rows that carry a date, and those whose date parses
RowsWithDate == { k \in 1..Len(store) : store[k].offer__encoding_date.kind # "null" }

RowsWithParsedDate == { k \in 1..Len(store) : store[k].offer__encoding_date.kind = "day" }

\* the sum of the ages in days of the rows whose date parses
TotalAgeDays ==
    Total([k \in 1..Len(store) |->
              IF k \in RowsWithParsedDate THEN clock - store[k].offer__encoding_date.day ELSE 0])

DataRecencyApplied(i) == Settled(i) /\ call[i].est = "dataRecency"

\* max(0, 100 - avgAgeDays / 365 * 100) over the rows whose date parses
RecencyOfAverageAge ==
    LET n == Cardinality(RowsWithParsedDate)
    IN  IF TotalAgeDays >= 365 * n THEN R(0)
        ELSE Rat((365 * n - TotalAgeDays) * 100, 365 * n)

\* C12 (as amended): dataRecency is 0 when no record carries a date, 50
\* when records carry dates but none of them parses, and otherwise
\* max(0, 100 - avgAgeDays / 365 * 100) over the records whose date parses;
\* records all exactly 365 days old give 0, an average age above 365 days
\* gives 0, and the result is never negative.
C12_DataRecency ==
    \A i \in DOMAIN pc :
        DataRecencyApplied(i) =>
            LET n == Cardinality(RowsWithParsedDate)
            IN  /\ RowsWithDate = {} => result[i].value = R(0)
                /\ (RowsWithDate # {} /\ n = 0) => result[i].value = R(50)
                /\ n > 0 => result[i].value = RecencyOfAverageAge
                /\ (n > 0 /\ TotalAgeDays >= 365 * n) => result[i].value = R(0)
                /\ Le(R(0), result[i].value)

\* C12 as stated: 0 whenever no record contributes a usable date.
C12_ZeroWithoutUsableDate ==
    \A i \in DOMAIN pc :
        DataRecencyApplied(i) /\ RowsWithParsedDate = {} => result[i].value = R(0)

\* two records exactly 365 days old and one that carries no date: 0
C12_Witness ==
    \E i \in DOMAIN pc :
        /\ DataRecencyApplied(i)
        /\ Len(store) = 3 /\ Cardinality(RowsWithParsedDate) = 2
        /\ \A k \in RowsWithParsedDate : clock - store[k].offer__encoding_date.day = 365
        /\ result[i].value = R(0)

\* what a call in flight holds
CallState(i) == <<pc[i], call[i], loc[i], result[i], qlog[i]>>

\* the results the call could return when run alone over the store
AloneResults(i) ==
    IF call[i].est = "reliability"
    THEN { ReliabilityAlone(store, call[i].customerNr, call[i].productId, clock, jitter) :
               jitter \in 0..9 }
    ELSE IF call[i].est = "probability"
    THEN { ProbabilityResult(ProbabilityAlone(store, call[i].markup, call[i].productId,
                                              call[i].customerNr)) }
    ELSE { MarkupAlone(store, call[i].customerNr, call[i].productId, call[i].quantity) }

\* a step belongs to one call: it leaves the store and every other call's
\* state as they were
StepOfOneCall ==
    /\ store' = store
    /\ \E i \in DOMAIN pc : \A j \in DOMAIN pc \ {i} : CallState(j)' = CallState(j)

\* C13: estimates interleaved at their awaits need no coordination: a call
\* no query of which failed returns a result it returns when run alone over
\* the store, and every step leaves the store and the state of every other
\* call unchanged.
C13_NoCoordination ==
    /\ [](\A i \in DOMAIN pc :
              Settled(i) /\ loc[i].thrown = "none" => result[i] \in AloneResults(i))
    /\ [][StepOfOneCall]_vars

\* a markup estimate settled on its fallback path while a reliability
\* estimate for the other product is between its queries
C13_Witness ==
    \E i, j \in DOMAIN pc :
        /\ i # j
        /\ Settled(i) /\ call[i].est = "markup" /\ loc[i].thrown = "none"
        /\ Len(qlog[i]) = 5 /\ qlog[i][1] = "mk_pair" /\ qlog[i][2] = "mk_product"
        /\ result[i] = MarkupAlone(store, call[i].customerNr, call[i].productId,
                                   call[i].quantity)
        /\ call[j].est = "reliability" /\ pc[j] = "rel_customer"
        /\ call[j].productId # call[i].productId
        /\ Len(store) > 0

\* a probability estimate that went through the fallback's two queries
FallbackApplied(i) ==
    /\ Settled(i) /\ call[i].est = "probability" /\ loc[i].thrown = "none"
    /\ qlog[i] = <<"prob_pair", "prob_product", "prob_customer">>

\* the rows of the product, and those of the customer
ProductRows(productId) == { k \in 1..Len(store) : store[k].product__id = productId }

\* the markup tiers as the specification lists them; extra is added to each
StatedTierShift(markup, extra) ==
    IF markup > 35 THEN -(15 + extra)
    ELSE IF markup > 25 THEN -(5 + extra)
    ELSE IF markup < 10 THEN 10 + extra
    ELSE IF markup < 15 THEN 5 + extra
    ELSE 0

ClampInt(x, lo, hi) == IF x < lo THEN lo ELSE IF x > hi THEN hi ELSE x

\* C14: with no product and no customer history the fallback probability is
\* clamp[15,85] of 50 + ((sum % 25) - 12) shifted by the markup tier:
\* -(15 + sum%5) above 35, -(5 + sum%5) above 25, +(5 + sum%5) below 15 and
\* +(10 + sum%5) below 10, sum being the character-code sum of productId.
C14_NoDataProbability ==
    \A i \in DOMAIN pc :
        /\ FallbackApplied(i)
        /\ ProductRows(call[i].productId) = {} /\ CustomerRows(call[i].customerNr) = {}
        => LET sum == CharCodeSum(call[i].productId)
           IN  result[i].probability =
                   R(ClampInt(50 + ((sum % 25) - 12)
                                 + StatedTierShift(call[i].markup.n, sum % 5), 15, 85))

\* the rows among rows with a valid markup within 10 points of m
NearRows(rows, m) ==
    { k \in rows :
        LET o == store[k]
            cost == o.purchase_price__gross_purchase_price * o.rate
        IN  /\ cost # 0
            /\ Abs(100 * (o.offer_answer__box_price_chf - cost) - m * cost)
                   <= 2 * SIMILAR_MARKUP_THRESHOLD * Abs(cost) }

\* 0.7 * pseudo-score + 0.3 * the success rate in percent of won offers in n
BlendedProbability(pseudo, won, n) ==
    Add(Mul(R(pseudo), Rat(7, 10)), Mul(Rat(100 * won, n), Rat(3, 10)))

\* C15: in the fallback with a non-empty combined history (the product's
\* offers followed by the customer's), fewer than 3 offers within 10 points
\* of the proposed markup give 0.7 * pseudo-score + 0.3 * the success rate
\* of the whole combined history, the pseudo-score being
\* 50 + (((productId sum + customerNr sum) % 20) - 10) shifted by the tiers
\* of the empty-history estimate; 3 or more such offers give their success
\* rate in percent.
C15_FewDataProbability ==
    \A i \in DOMAIN pc :
        LET product == ProductRows(call[i].productId)
            customer == CustomerRows(call[i].customerNr)
            n == Cardinality(product) + Cardinality(customer)
            won == Cardinality(WonRows(product)) + Cardinality(WonRows(customer))
            nearProduct == NearRows(product, call[i].markup.n)
            nearCustomer == NearRows(customer, call[i].markup.n)
            near == Cardinality(nearProduct) + Cardinality(nearCustomer)
            nearWon == Cardinality(WonRows(nearProduct)) + Cardinality(WonRows(nearCustomer))
            productIdSum == CharCodeSum(call[i].productId)
            pseudo == 50 + (((productIdSum + CharCodeSum(call[i].customerNr)) % 20) - 10)
                         + StatedTierShift(call[i].markup.n, productIdSum % 5)
        IN  FallbackApplied(i) /\ n > 0 =>
                result[i].probability =
                    IF near < 3 THEN BlendedProbability(pseudo, won, n)
                    ELSE Rat(100 * nearWon, near)

ReliabilityApplied(i) ==
    Settled(i) /\ call[i].est = "reliability" /\ loc[i].thrown = "none"

\* the fallback penalty of the branch the table puts the call in; in the
\* customer-only branch it is any of 76..85
FallbackPenalties(customerNr, productId) ==
    LET product == ProductRows(productId)
        customer == CustomerRows(customerNr)
        reduced == 80 - 3 * Cardinality(product)
    IN  IF product \cap customer # {} THEN {0}
        ELSE IF product # {} THEN {IF reduced > 40 THEN reduced ELSE 40}
        ELSE IF customer # {} THEN 76..85
        ELSE {100}

\* C16 (as amended): on every non-error path the reported fallbacksUsed
\* factor is 100 - the fallback penalty, and with no pair, product or
\* customer history the penalty is the 100 set on finding no pair history,
\* so the reported factor is 0.
C16_FallbacksUsed ==
    \A i \in DOMAIN pc :
        ReliabilityApplied(i) =>
            /\ \E penalty \in FallbackPenalties(call[i].customerNr, call[i].productId) :
                   result[i].fallbacksUsed = R(100 - penalty)
            /\ NoHistoryFor(call[i].customerNr, call[i].productId) =>
                   result[i].fallbacksUsed = R(0)

\* C16 as stated: with no history at all the reported factor is 100.
C16_NoHistoryReportsHundred ==
    \A i \in DOMAIN pc :
        ReliabilityApplied(i) /\ NoHistoryFor(call[i].customerNr, call[i].productId) =>
            result[i].fallbacksUsed = R(100)

\* a call for product 95 over offers of other products to another customer
C16_Witness ==
    \E i \in DOMAIN pc :
        /\ ReliabilityApplied(i)
        /\ NoHistoryFor(call[i].customerNr, call[i].productId)
        /\ call[i].productId = Prod95 /\ Len(store) > 0
        /\ result[i].fallbacksUsed = R(0)

\* a markup estimate that found no successful pair history and settled
FallbackMarkupApplied(i) ==
    /\ Settled(i) /\ call[i].est = "markup" /\ loc[i].thrown = "none"
    /\ Len(qlog[i]) = 5 /\ qlog[i][2] = "mk_product"

\* the sum over rows of the stored quantities, a missing one counting 1
QuantityOf(rows) ==
    Total([k \in 1..Len(store) |->
              IF k \notin rows THEN 0
              ELSE IF store[k].offer_answer__qty \in {Null, <<0>>} THEN 1
              ELSE store[k].offer_answer__qty[1]])

\* the 0.7 / 0.3 blend of the weighted markups of the won offers of the
\* product and of the customer, normalised by the weights of the non-empty
\* ones, and the pseudo-markup of productId when both are empty
BlendedFallbackMarkup(customerNr, productId) ==
    LET productHistory == FetchGeneralProductHistorySuccess(store, productId)
        customerHistory == FetchGeneralCustomerHistorySuccess(store, customerNr)
    IN  IF Len(productHistory) = 0 /\ Len(customerHistory) = 0 THEN PseudoMarkup(productId)
        ELSE IF Len(customerHistory) = 0 THEN ComputeWeightedMarkup(productHistory)
        ELSE IF Len(productHistory) = 0 THEN ComputeWeightedMarkup(customerHistory)
        ELSE Add(Mul(ComputeWeightedMarkup(productHistory), Rat(7, 10)),
                 Mul(ComputeWeightedMarkup(customerHistory), Rat(3, 10)))

\* x0.9 for quantity / (total / n) > 2, x1.1 for a ratio < 0.5, else x1
QuantityFactor(quantity, total, n) ==
    IF quantity * n > 2 * total THEN Rat(9, 10)
    ELSE IF 2 * quantity * n < total THEN Rat(11, 10)
    ELSE R(1)

\* C17: without successful pair history the markup before the final clamp
\* is the fallback markup times 0.9 when quantity / (average quantity of the
\* won offers of the product and of the customer) exceeds 2, times 1.1 when
\* the ratio is below 0.5, and unchanged otherwise, the average being 10
\* when there is no such offer.
C17_FallbackMarkup ==
    \A i \in DOMAIN pc :
        LET product == WonRows(ProductRows(call[i].productId))
            customer == WonRows(CustomerRows(call[i].customerNr))
            n == Cardinality(product) + Cardinality(customer)
            total == IF n = 0 THEN DEFAULT_AVG_QUANTITY
                     ELSE QuantityOf(product) + QuantityOf(customer)
        IN  FallbackMarkupApplied(i) =>
                loc[i].markup =
                    Mul(BlendedFallbackMarkup(call[i].customerNr, call[i].productId),
                        QuantityFactor(call[i].quantity, total, IF n = 0 THEN 1 ELSE n))

\* the queries of a reliability estimate, in the order the code issues them
ReliabilityQueries == <<"pair", "product", "customer">>

\* C18: a reliability estimate issues its queries in sequence and lazily:
\* the pair query first, the product query only after the pair query
\* returned nothing, the customer query only after both returned nothing,
\* each at most once; so at most three queries, and exactly one when the
\* pair has history.  (A query that threw is logged as "failed".)
C18_LazyQueries ==
    \A i \in DOMAIN pc :
        call[i].est = "reliability" =>
            LET pair == ProductRows(call[i].productId) \cap CustomerRows(call[i].customerNr)
            IN  /\ Len(qlog[i]) <= 3
                /\ \A k \in 1..Len(qlog[i]) :
                       \/ qlog[i][k] = ReliabilityQueries[k]
                       \/ qlog[i][k] = "failed" /\ k = Len(qlog[i])
                /\ Len(qlog[i]) >= 2 => pair = {}
                /\ Len(qlog[i]) >= 3 => ProductRows(call[i].productId) = {}
                /\ (Settled(i) /\ loc[i].thrown # "getDb") => Len(qlog[i]) >= 1
                /\ (Settled(i) /\ pair # {}) => Len(qlog[i]) <= 1
                /\ (ReliabilityApplied(i) /\ pair # {}) => qlog[i] = <<"pair">>

\* an estimate settled after its three queries, the last one finding the
\* customer's offers of another product
C18_Witness ==
    \E i \in DOMAIN pc :
        /\ ReliabilityApplied(i)
        /\ qlog[i] = ReliabilityQueries
        /\ ProductRows(call[i].productId) = {}
        /\ Cardinality(CustomerRows(call[i].customerNr)) = 2

\* a factor of markupFactors, an absent one counting 0
FactorValue(f) == IF f = Null THEN R(0) ELSE f[1]

\* x, a finite number, limited to [1, 1000] and rounded to one decimal
ClampedToOneDecimal(x) ==
    LET tenths == IF x.n < x.d THEN 10
                  ELSE IF x.n > 1000 * x.d THEN 10000
                  ELSE (20 * x.n + x.d) \div (2 * x.d)
    IN  Rat(tenths, 10)

\* C19: in every MarkupResult suggestedMarkup is the one-decimal rounding of
\* clamp[1,1000](baseMarkup + clientHistory + volumeDiscount), a factor
\* absent from markupFactors counting 0 and a present one being non-zero;
\* on the error path suggestedMarkup = baseMarkup = 20.
C19_MarkupIsSumOfFactors ==
    \A i \in DOMAIN pc :
        Settled(i) /\ result[i].kind = "markup" =>
            /\ result[i].suggestedMarkup =
                   ClampedToOneDecimal(Add(Add(result[i].baseMarkup,
                                               FactorValue(result[i].clientHistory)),
                                           FactorValue(result[i].volumeDiscount)))
            /\ result[i].clientHistory # <<R(0)>>
            /\ result[i].volumeDiscount # <<R(0)>>
            /\ loc[i].thrown # "none" =>
                   /\ result[i].suggestedMarkup = R(20)
                   /\ result[i].baseMarkup = R(20)
                   /\ result[i].clientHistory = Null /\ result[i].volumeDiscount = Null

\* a direct estimate with both adjustments present
C19_Witness ==
    \E i \in DOMAIN pc :
        /\ Settled(i) /\ result[i].kind = "markup" /\ loc[i].thrown = "none"
        /\ result[i].clientHistory # Null /\ result[i].volumeDiscount # Null
        /\ Within(loc[i].markup, MIN_MARKUP, MAX_MARKUP)
        /\ result[i].suggestedMarkup # result[i].baseMarkup

====
